---------------------------- MODULE Spec2Model ----------------------------
(***************************************************************************)
(* Model of merge_two_json_modify_english.py: the alignment of a book's    *)
(* content chunks with its table of contents (TOC).  One book is followed  *)
(* from process_single_book through process_book_in_segments, every call   *)
(* of ContentMatcher.match_content_to_toc, the write of the merged file    *)
(* and the summary of process_all_books.                                   *)
(*                                                                         *)
(* Strings are sequences of one-character strings.  A TocChunk is a record *)
(* whose id field stands for the identity of the Python object (TocChunk   *)
(* defines no __eq__, so list.index compares objects by identity).         *)
(***************************************************************************)
EXTENDS Integers, Sequences, FiniteSets, TLC

(***************************************************************************)
(* Bounds of the model.                                                    *)
(***************************************************************************)
MaxToc == 3
MaxContent == 2
MaxResp == 2
MaxSlice == 10
MaxCursor == 13

(***************************************************************************)
(* Strings.                                                                *)
(***************************************************************************)
Max(a, b) == IF a >= b THEN a ELSE b
Min(a, b) == IF a <= b THEN a ELSE b

LowerChar(c) ==
    CASE c = "C" -> "c"
      [] c = "D" -> "d"
      [] c = "I" -> "i"
      [] c = "N" -> "n"
      [] c = "A" -> "a"
      [] c = "W" -> "w"
      [] c = "S" -> "s"
      [] c = "G" -> "g"
      [] OTHER -> c

\* str.lower()
Lower(s) == [k \in 1..Len(s) |-> LowerChar(s[k])]

\* len(s.split()): the number of maximal runs of non-blank characters
WordCount(s) ==
    Cardinality({k \in 1..Len(s) : s[k] # " " /\ (k = 1 \/ s[k-1] = " ")})

(***************************************************************************)
(* difflib.SequenceMatcher(None, a, b): no junk, and the automatic junk    *)
(* heuristic needs 200 characters, so every character of b is indexed.     *)
(***************************************************************************)
\* a[ai+1 .. ai+size] = b[bj+1 .. bj+size], with 0-based block starts
BlockMatches(a, b, ai, bj, size) == \A d \in 1..size : a[ai+d] = b[bj+d]

\* find_longest_match(alo, ahi, blo, bhi): the longest block, of those the
\* one starting earliest in a, of those the one starting earliest in b
FindLongestMatch(a, b, alo, ahi, blo, bhi) ==
    LET cand == {m \in (alo..ahi) \X (blo..bhi) \X (0..(ahi-alo)) :
                    /\ m[1] + m[3] <= ahi
                    /\ m[2] + m[3] <= bhi
                    /\ BlockMatches(a, b, m[1], m[2], m[3])}
        best == CHOOSE m \in cand : \A n \in cand :
                    \/ m[3] > n[3]
                    \/ m[3] = n[3] /\ m[1] < n[1]
                    \/ m[3] = n[3] /\ m[1] = n[1] /\ m[2] <= n[2]
    IN  IF best[3] = 0 THEN <<alo, blo, 0>> ELSE best

\* sum of the sizes of get_matching_blocks() over a[alo:ahi], b[blo:bhi]
RECURSIVE MatchingSize(_, _, _, _, _, _)
MatchingSize(a, b, alo, ahi, blo, bhi) ==
    IF alo >= ahi \/ blo >= bhi THEN 0
    ELSE LET m == FindLongestMatch(a, b, alo, ahi, blo, bhi)
         IN  IF m[3] = 0 THEN 0
             ELSE m[3] + MatchingSize(a, b, alo, m[1], blo, m[2])
                       + MatchingSize(a, b, m[1] + m[3], ahi, m[2] + m[3], bhi)

\* similar_text(text1, text2) > num/den, where ratio() = 2.0 * matches / length
\* and ratio() = 1.0 when both strings are empty
SimilarAbove(text1, text2, num, den) ==
    LET a == Lower(text1)
        b == Lower(text2)
        length == Len(a) + Len(b)
        matches == MatchingSize(a, b, 0, Len(a), 0, Len(b))
    IN  IF length = 0 THEN num < den
        ELSE 2 * matches * den > num * length

(***************************************************************************)
(* The files of one book.  A TOC file is missing, unparsable, or a list of *)
(* {Chapter, Section} items; a content file is missing, unparsable, or a   *)
(* list of {Subsection, Content} items where either field may be absent    *)
(* (the empty string <<>>, body 0).  The body of the item at position j of *)
(* the file is the number j, so that bodies tell chunks apart.             *)
(***************************************************************************)
Ch1 == <<"C", "h", "1">>
Ch2 == <<"C", "h", "2">>
SecCellWall == <<"C", "e", "l", "l", " ", "W", "a", "l", "l">>
SecJoined == <<"C", "e", "l", "l", "W", "a", "l", "l">>
SecDnaCode == <<"D", "N", "A", " ", "C", "o", "d", "e">>
HeadCellWall == <<"c", "e", "l", "l", " ", "w", "a", "l", "l">>
HeadDnaCode == <<"D", "N", "A", " ", "C", "o", "d", "e">>
HeadIntro == <<"I", "n", "t", "r", "o">>

\* a one-word section close to a heading, and two sections of two words
TocItems ==
    { [Chapter |-> Ch1, Section |-> SecJoined],
      [Chapter |-> Ch1, Section |-> SecCellWall],
      [Chapter |-> Ch2, Section |-> SecDnaCode] }

Headings == {HeadCellWall, HeadDnaCode, HeadIntro}

\* the shapes of a content item: a heading with a body, or no heading
ItemShapes ==
    {[Subsection |-> h, body |-> TRUE] : h \in Headings}
        \cup {[Subsection |-> <<>>, body |-> TRUE]}

SeqsUpTo(S, n) == UNION {[1..m -> S] : m \in 0..n}

\* a file: missing, unparsable JSON, or a parsed list of items
BadFiles == { [state |-> "missing", items |-> <<>>],
              [state |-> "unparsable", items |-> <<>>] }

TocFiles ==
    BadFiles \cup {[state |-> "list", items |-> f] : f \in SeqsUpTo(TocItems, MaxToc)}

ContentFiles ==
    BadFiles \cup
    { [state |-> "list",
       items |-> [j \in 1..Len(sh) |-> [Subsection |-> sh[j].Subsection,
                                        Content |-> IF sh[j].body THEN j ELSE 0]]] :
        sh \in SeqsUpTo(ItemShapes, MaxContent) }

\* load_toc: one TocChunk object per item, in file order
load_toc(file) ==
    [k \in 1..Len(file.items) |->
        [id |-> k, chapter |-> file.items[k].Chapter,
         section |-> file.items[k].Section]]

\* "if subsection and content": an item lacking either field is dropped
RECURSIVE KeptItems(_)
KeptItems(items) ==
    IF items = <<>> THEN <<>>
    ELSE (IF Head(items).Subsection # <<>> /\ Head(items).Content # 0
          THEN <<Head(items)>> ELSE <<>>) \o KeptItems(Tail(items))

\* load_content: one ContentChunk per kept item, in file order
load_content(file) ==
    LET kept == KeptItems(file.items)
    IN  [k \in 1..Len(kept) |->
            [subsection |-> kept[k].Subsection, content |-> kept[k].Content]]

\* open() + json.load() raise on a missing or unparsable file
LoadRaises(file) == file.state # "list"

(***************************************************************************)
(* similar_text on the sections and headings of the model: the matching    *)
(* sizes are tabulated once.                                               *)
(***************************************************************************)
Sections == {it.Section : it \in TocItems}

\* one triple <<section, heading, matching size>> per pair
MatchTable ==
    { <<p[1], p[2],
        MatchingSize(Lower(p[1]), Lower(p[2]), 0, Len(p[1]), 0, Len(p[2]))>> :
        p \in Sections \X Headings }

\* similar_text(text1, text2) > num/den
similar_text_above(text1, text2, num, den) ==
    IF text1 \in Sections /\ text2 \in Headings
    THEN \E m \in 0..(Len(text1) + Len(text2)) :
            /\ <<text1, text2, m>> \in MatchTable
            /\ 2 * m * den > num * (Len(text1) + Len(text2))
    ELSE SimilarAbove(text1, text2, num, den)

(***************************************************************************)
(* Python lists: indices are 0-based, seq[lo:hi] clamps to the list.       *)
(***************************************************************************)
PySlice(seq, lo, hi) ==
    LET l == Min(Max(lo, 0), Len(seq))
        h == Min(Max(hi, 0), Len(seq))
    IN  IF l >= h THEN <<>> ELSE [k \in 1..(h - l) |-> seq[l + k]]

\* the increasing list of the numbers of a set
RECURSIVE SortedSeq(_)
SortedSeq(S) ==
    IF S = {} THEN <<>>
    ELSE LET m == CHOOSE x \in S : \A y \in S : x <= y
         IN  <<m>> \o SortedSeq(S \ {m})

\* find_alignment_points skipping the sections of two words as well
find_alignment_points_long_sections(toc, content) ==
    SortedSeq({c \in 0..(Len(content) - 1) :
        \E k \in 1..Len(toc) :
            /\ ~(WordCount(toc[k].section) <= 2)
            /\ similar_text_above(toc[k].section, content[c+1].subsection, 9, 10)})

\* find_alignment_points: the content indices whose subsection is more than
\* 0.9 similar to the section of some TOC chunk of more than one word
find_alignment_points(toc, content) ==
    SortedSeq({c \in 0..(Len(content) - 1) :
        \E k \in 1..Len(toc) :
            /\ ~(WordCount(toc[k].section) <= 1)
            /\ similar_text_above(toc[k].section, content[c+1].subsection, 9, 10)})

\* the segmenter cutting at current_toc_start without looking for the entry
\* that matches the alignment point
FirstTocMatchAtStart(toc, content, point, current_toc_start) ==
    IF current_toc_start < Len(toc) THEN current_toc_start ELSE -1

\* the inner loop of the segmenter: the first TOC index at or after
\* current_toc_start whose section is more than 0.8 similar, or -1
FirstTocMatch(toc, content, point, current_toc_start) ==
    LET hits == {t \in current_toc_start..(Len(toc) - 1) :
                    similar_text_above(toc[t+1].section,
                                       content[point+1].subsection, 8, 10)}
    IN  IF hits = {} THEN -1 ELSE CHOOSE t \in hits : \A u \in hits : t <= u

\* the segmenter loop over the alignment points, then the last segment
RECURSIVE BuildSegments(_, _, _, _, _, _, _)
BuildSegments(toc, content, points, start, current_toc_start, cs, ts) ==
    IF points = <<>>
    THEN [content_segments |-> Append(cs, <<start, Len(content)>>),
          toc_segments |-> Append(ts, PySlice(toc, current_toc_start, Len(toc)))]
    ELSE LET point == Head(points)
             t == FirstTocMatch(toc, content, point, current_toc_start)
         IN  IF t = -1
             THEN BuildSegments(toc, content, Tail(points), start,
                                current_toc_start, cs, ts)
             ELSE BuildSegments(toc, content, Tail(points), point, t,
                                Append(cs, <<start, point>>),
                                Append(ts, PySlice(toc, current_toc_start, t + 1)))

\* the segmenter loop with the TOC slice of a segment ending end_off entries
\* after the matched entry and the next slice starting start_off entries
\* after it
RECURSIVE BuildSegmentsOff(_, _, _, _, _, _, _, _, _)
BuildSegmentsOff(toc, content, points, start, current_toc_start, cs, ts,
                 end_off, start_off) ==
    IF points = <<>>
    THEN [content_segments |-> Append(cs, <<start, Len(content)>>),
          toc_segments |-> Append(ts, PySlice(toc, current_toc_start, Len(toc)))]
    ELSE LET point == Head(points)
             t == FirstTocMatch(toc, content, point, current_toc_start)
         IN  IF t = -1
             THEN BuildSegmentsOff(toc, content, Tail(points), start,
                                   current_toc_start, cs, ts, end_off, start_off)
             ELSE BuildSegmentsOff(toc, content, Tail(points), point,
                                   t + start_off,
                                   Append(cs, <<start, point>>),
                                   Append(ts, PySlice(toc, current_toc_start,
                                                      t + end_off)),
                                   end_off, start_off)

\* the segmenter starting the next TOC slice after the matched entry
SegmentsAfterAnchor(toc, content, points) ==
    BuildSegmentsOff(toc, content, points, 0, 0, <<>>, <<>>, 1, 1)

\* the segmenter ending the TOC slice before the matched entry
SegmentsBeforeAnchor(toc, content, points) ==
    BuildSegmentsOff(toc, content, points, 0, 0, <<>>, <<>>, 0, 0)

\* the segmenter with its first start off by one
SegmentsStartAtOne(toc, content, points) ==
    BuildSegments(toc, content, points, 1, 0, <<>>, <<>>)

\* the segmenter giving every segment the whole TOC
SegmentsWholeToc(toc, content, points) ==
    LET cut == BuildSegments(toc, content, points, 0, 0, <<>>, <<>>)
    IN  [content_segments |-> cut.content_segments,
         toc_segments |-> [k \in 1..Len(cut.toc_segments) |-> toc]]

Segments(toc, content, points) ==
    BuildSegments(toc, content, points, 0, 0, <<>>, <<>>)

\* the window size and the backoff of get_toc_window
WindowSize == 7
Backoff == 2

\* the window one entry too long
get_toc_window_wide(toc, current_index) ==
    LET start_idx == Max(0, current_index - Backoff)
        end_idx == Min(Len(toc), start_idx + WindowSize + 1)
    IN  PySlice(toc, start_idx, end_idx)

\* the window starting one entry before the cursor, as the docstring has it
get_toc_window_back_one(toc, current_index) ==
    LET start_idx == Max(0, current_index - 1)
        end_idx == Min(Len(toc), start_idx + WindowSize)
    IN  PySlice(toc, start_idx, end_idx)

\* the window starting three entries before the cursor
get_toc_window_back_three(toc, current_index) ==
    LET start_idx == Max(0, current_index - (Backoff + 1))
        end_idx == Min(Len(toc), start_idx + WindowSize)
    IN  PySlice(toc, start_idx, end_idx)

get_toc_window(toc, current_index) ==
    LET start_idx == Max(0, current_index - Backoff)
        end_idx == Min(Len(toc), start_idx + WindowSize)
    IN  PySlice(toc, start_idx, end_idx)

(***************************************************************************)
(* The answer of the chat completion call.  It raises, or it returns an    *)
(* object without a usable message text (no choice, content None), or it   *)
(* returns a text; tokens is text.strip().split(','), never empty.         *)
(***************************************************************************)
FirstTokens == { <<"1">>, <<" ", "2">>, <<"3">>, <<"0">>, <<"9">>, <<"x">> }
RestTokens == { <<"1">>, <<"2">>, <<"9">>, <<>> }

Responses ==
    { [kind |-> "raise"], [kind |-> "malformed"] } \cup
    { [kind |-> "text", tokens |-> <<t>> \o rest] :
        t \in FirstTokens, rest \in SeqsUpTo(RestTokens, MaxResp - 1) }

Digits == <<"0", "1", "2", "3", "4", "5", "6", "7", "8", "9">>
IsDigit(c) == \E d \in 1..10 : Digits[d] = c
DigitValue(c) == (CHOOSE d \in 1..10 : Digits[d] = c) - 1

\* str.strip(): blanks removed at both ends
RECURSIVE Strip(_)
Strip(s) ==
    IF s = <<>> THEN s
    ELSE IF Head(s) = " " THEN Strip(Tail(s))
    ELSE IF s[Len(s)] = " " THEN Strip(SubSeq(s, 1, Len(s) - 1))
    ELSE s

RECURSIVE DecimalValue(_)
DecimalValue(s) ==
    IF s = <<>> THEN 0
    ELSE 10 * DecimalValue(SubSeq(s, 1, Len(s) - 1)) + DigitValue(s[Len(s)])

\* int(token.strip()): an optional sign and at least one digit, else ValueError
ParseInt(token) ==
    LET t == Strip(token)
        signed == t # <<>> /\ Head(t) \in {"-", "+"}
        digits == IF signed THEN Tail(t) ELSE t
        ok == digits # <<>> /\ \A k \in 1..Len(digits) : IsDigit(digits[k])
    IN  [ok |-> ok,
         value |-> IF ~ok THEN 0
                   ELSE IF signed /\ Head(t) = "-" THEN 0 - DecimalValue(digits)
                   ELSE DecimalValue(digits)]

\* the current chunk and only one following chunk
LookAheadTwo(content_list, current_index) ==
    <<content_list[current_index + 1]>>
      \o (IF current_index < Len(content_list) - 1
          THEN <<content_list[current_index + 2]>> ELSE <<>>)

\* the current chunk and up to two following chunks of content_list
LookAhead(content_list, current_index) ==
    <<content_list[current_index + 1]>>
      \o (IF current_index < Len(content_list) - 1
          THEN <<content_list[current_index + 2]>> ELSE <<>>)
      \o (IF current_index < Len(content_list) - 2
          THEN <<content_list[current_index + 3]>> ELSE <<>>)

ParseError == "GPT returned an invalid number format"
ApiError == "API call failed"

\* [toc_options[0]] * n
Repeat(x, n) == [k \in 1..n |-> x]

\* the option of one parsed index, the first option for an invalid index
OptionAt(toc_options, idx) ==
    IF 0 <= idx /\ idx < Len(toc_options)
    THEN toc_options[idx + 1] ELSE toc_options[1]

\* match_content_to_toc falling back to the last option on a parse error
match_content_to_toc_last(chunks, toc_options, resp) ==
    LET parsed == [k \in 1..Len(resp.tokens) |-> ParseInt(resp.tokens[k])]
        all_ok == \A k \in 1..Len(parsed) : parsed[k].ok
    IN  IF resp.kind # "text"
        THEN [raised |-> FALSE,
              results |-> Repeat(toc_options[1], Len(chunks)),
              logged |-> <<ApiError>>]
        ELSE IF ~all_ok
        THEN [raised |-> FALSE,
              results |-> Repeat(toc_options[Len(toc_options)], Len(chunks)),
              logged |-> <<ParseError>>]
        ELSE [raised |-> FALSE,
              results |-> [k \in 1..Len(parsed) |->
                              OptionAt(toc_options, parsed[k].value - 1)],
              logged |-> <<>>]

\* match_content_to_toc returning no TOC chunk when the API call fails
match_content_to_toc_empty(chunks, toc_options, resp) ==
    LET parsed == [k \in 1..Len(resp.tokens) |-> ParseInt(resp.tokens[k])]
        all_ok == \A k \in 1..Len(parsed) : parsed[k].ok
    IN  IF resp.kind # "text"
        THEN [raised |-> FALSE, results |-> <<>>, logged |-> <<ApiError>>]
        ELSE IF ~all_ok
        THEN [raised |-> FALSE,
              results |-> Repeat(toc_options[1], Len(chunks)),
              logged |-> <<ParseError>>]
        ELSE [raised |-> FALSE,
              results |-> [k \in 1..Len(parsed) |->
                              OptionAt(toc_options, parsed[k].value - 1)],
              logged |-> <<>>]

\* match_content_to_toc returning a placeholder chunk when the call fails
match_content_to_toc_placeholder(chunks, toc_options, resp) ==
    LET parsed == [k \in 1..Len(resp.tokens) |-> ParseInt(resp.tokens[k])]
        all_ok == \A k \in 1..Len(parsed) : parsed[k].ok
    IN  IF resp.kind # "text"
        THEN [raised |-> FALSE,
              results |-> Repeat([id |-> 0, chapter |-> <<"?">>,
                                  section |-> <<"?">>], Len(chunks)),
              logged |-> <<ApiError>>]
        ELSE IF ~all_ok
        THEN [raised |-> FALSE,
              results |-> Repeat(toc_options[1], Len(chunks)),
              logged |-> <<ParseError>>]
        ELSE [raised |-> FALSE,
              results |-> [k \in 1..Len(parsed) |->
                              OptionAt(toc_options, parsed[k].value - 1)],
              logged |-> <<>>]

\* match_content_to_toc letting the exception of a failed call reach the
\* caller instead of returning the default options
match_content_to_toc_reraise(chunks, toc_options, resp) ==
    LET parsed == [k \in 1..Len(resp.tokens) |-> ParseInt(resp.tokens[k])]
        all_ok == \A k \in 1..Len(parsed) : parsed[k].ok
    IN  IF resp.kind # "text"
        THEN [raised |-> TRUE, results |-> <<>>, logged |-> <<ApiError>>]
        ELSE IF ~all_ok
        THEN [raised |-> toc_options = <<>>,
              results |-> IF toc_options = <<>> THEN <<>>
                          ELSE Repeat(toc_options[1], Len(chunks)),
              logged |-> IF toc_options = <<>> THEN <<ParseError, ApiError>>
                         ELSE <<ParseError>>]
        ELSE IF toc_options = <<>>
        THEN [raised |-> TRUE, results |-> <<>>, logged |-> <<ApiError>>]
        ELSE [raised |-> FALSE,
              results |-> [k \in 1..Len(parsed) |->
                              OptionAt(toc_options, parsed[k].value - 1)],
              logged |-> <<>>]

(***************************************************************************)
(* match_content_to_toc, from the answer on: the TOC chunks returned, the  *)
(* entries written to the log, and whether the call raises to its caller   *)
(* (indexing an empty toc_options in a handler).                           *)
(***************************************************************************)
match_content_to_toc(chunks, toc_options, resp) ==
    LET parsed == [k \in 1..Len(resp.tokens) |-> ParseInt(resp.tokens[k])]
        all_ok == \A k \in 1..Len(parsed) : parsed[k].ok
    IN  IF resp.kind # "text"
        THEN [raised |-> toc_options = <<>>,
              results |-> IF toc_options = <<>> THEN <<>>
                          ELSE Repeat(toc_options[1], Len(chunks)),
              logged |-> <<ApiError>>]
        ELSE IF ~all_ok
        THEN [raised |-> toc_options = <<>>,
              results |-> IF toc_options = <<>> THEN <<>>
                          ELSE Repeat(toc_options[1], Len(chunks)),
              logged |-> IF toc_options = <<>> THEN <<ParseError, ApiError>>
                         ELSE <<ParseError>>]
        ELSE IF toc_options = <<>>
        THEN [raised |-> TRUE, results |-> <<>>, logged |-> <<ApiError>>]
        ELSE [raised |-> FALSE,
              results |-> [k \in 1..Len(parsed) |->
                              OptionAt(toc_options, parsed[k].value - 1)],
              logged |-> <<>>]

\* toc_segment.index(matched_toc) comparing the chunks by their labels, as a
\* TocChunk with a field-wise __eq__ would
IndexOfByLabel(toc_segment, matched_toc) ==
    LET hits == {k \in 1..Len(toc_segment) :
                    /\ toc_segment[k].chapter = matched_toc.chapter
                    /\ toc_segment[k].section = matched_toc.section}
    IN  IF hits = {} THEN -1
        ELSE (CHOOSE k \in hits : \A m \in hits : k <= m) - 1

\* toc_segment.index(matched_toc): the first position holding that object,
\* or -1 for the ValueError that the caller ignores
IndexOf(toc_segment, matched_toc) ==
    LET hits == {k \in 1..Len(toc_segment) : toc_segment[k].id = matched_toc.id}
    IN  IF hits = {} THEN -1
        ELSE (CHOOSE k \in hits : \A m \in hits : k <= m) - 1

(***************************************************************************)
(* The state of one book's run.                                            *)
(***************************************************************************)
VARIABLES
    toc_file,           \* the TOC file on disk
    content_file,       \* the content file on disk
    api_key,            \* whether OPENAI_API_KEY is set
    pc,                 \* where the run stands
    toc_chunks,         \* load_toc's list
    content_chunks,     \* load_content's list
    alignment_points,   \* find_alignment_points' list
    content_segments,   \* the (start, end) pairs
    toc_segments,       \* the TOC slice of each segment
    seg,                \* 0-based position in zip(content_segments, toc_segments)
    i,                  \* the loop index inside the segment
    current_toc_index,  \* the cursor inside the segment's TOC slice
    request,            \* the Oracle call in flight: its chunks and options
    calls,              \* per content index, the number of Oracle calls made
    last,               \* the last call that returned: its answer, the
                        \* entries it sent to self.logger.error, its outcome
    final_results,      \* the merged records
    output_file,        \* the merged file: absent, partial or written
    result,             \* process_single_book's return value
    successful,         \* process_all_books' counters
    failed,
    semaphore,          \* the free permits of asyncio.Semaphore(20)
    siblings            \* the other books of the batch, counted by where
                        \* their process_with_semaphore task stands

vars == <<toc_file, content_file, api_key, pc, toc_chunks, content_chunks,
          alignment_points, content_segments, toc_segments, seg, i,
          current_toc_index, request, calls, last, final_results,
          output_file, result, successful, failed, semaphore, siblings>>

\* asyncio.Semaphore(20)
SemaphoreCapacity == 20

NoFile == [state |-> "absent", records |-> <<>>]
NoRequest == [chunks |-> <<>>, toc_options |-> <<>>]
NoCall == [answer |-> "none", index |-> -1, toc_options |-> <<>>,
           nchunks |-> 0, matched |-> 0, logged |-> <<>>, cursor |-> 0]

\* n sibling tasks created by process_all_books, none of them started
Siblings(n) == [queued |-> n, inside |-> 0, paths |-> 0, nones |-> 0]

Init ==
    /\ toc_file \in TocFiles
    /\ content_file \in ContentFiles
    /\ api_key \in BOOLEAN
    /\ pc = "load"
    /\ toc_chunks = <<>>
    /\ content_chunks = <<>>
    /\ alignment_points = <<>>
    /\ content_segments = <<>>
    /\ toc_segments = <<>>
    /\ seg = 0
    /\ i = 0
    /\ current_toc_index = 0
    /\ request = NoRequest
    /\ calls = <<>>
    /\ last = NoCall
    /\ final_results = <<>>
    /\ output_file = NoFile
    /\ result = "pending"
    /\ successful = 0
    /\ failed = 0
    /\ semaphore = SemaphoreCapacity
    /\ siblings = Siblings(0)

\* the segment's chunks taken from the head of the book instead of its start
SegmentContentFromHead(content, cs, s) ==
    PySlice(content, 0, cs[s+1][2] - cs[s+1][1])

\* the chunks of segment s (0-based): content_chunks[start:end]
SegmentContent(content, cs, s) == PySlice(content, cs[s+1][1], cs[s+1][2])

\* the first segment at or after s that has a chunk to classify, or -1
NextSegment(content, cs, s) ==
    LET todo == {n \in s..(Len(cs) - 1) : SegmentContent(content, cs, n) # <<>>}
    IN  IF todo = {} THEN -1 ELSE CHOOSE n \in todo : \A m \in todo : n <= m

\* LoadBook without the check that content chunks were loaded
LoadBookNoContentCheck ==
    /\ pc = "load"
    /\ LET toc == IF LoadRaises(toc_file) THEN <<>> ELSE load_toc(toc_file)
           content == IF LoadRaises(toc_file) \/ toc = <<>>
                         \/ LoadRaises(content_file)
                      THEN <<>> ELSE load_content(content_file)
           fails == \/ LoadRaises(toc_file) \/ toc = <<>>
                    \/ LoadRaises(content_file)
                    \/ ~api_key
       IN  /\ toc_chunks' = toc
           /\ content_chunks' = content
           /\ pc' = IF fails THEN "returned" ELSE "segments"
           /\ result' = IF fails THEN "None" ELSE result
    /\ UNCHANGED <<toc_file, content_file, api_key, alignment_points,
                   content_segments, toc_segments, seg, i, current_toc_index,
                   request, calls, last, final_results, output_file,
                   successful, failed, semaphore, siblings>>

(***************************************************************************)
(* process_single_book up to the call of process_book_in_segments: both    *)
(* files are loaded and checked, then the API key.  Any exception ends the *)
(* book with the return value None.                                        *)
(***************************************************************************)
LoadBook ==
    /\ pc = "load"
    /\ LET toc == IF LoadRaises(toc_file) THEN <<>> ELSE load_toc(toc_file)
           content == IF LoadRaises(toc_file) \/ toc = <<>>
                         \/ LoadRaises(content_file)
                      THEN <<>> ELSE load_content(content_file)
           fails == \/ LoadRaises(toc_file) \/ toc = <<>>
                    \/ LoadRaises(content_file) \/ content = <<>>
                    \/ ~api_key
       IN  /\ toc_chunks' = toc
           /\ content_chunks' = content
           /\ pc' = IF fails THEN "returned" ELSE "segments"
           /\ result' = IF fails THEN "None" ELSE result
    /\ UNCHANGED <<toc_file, content_file, api_key, alignment_points,
                   content_segments, toc_segments, seg, i, current_toc_index,
                   request, calls, last, final_results, output_file,
                   successful, failed, semaphore, siblings>>

(***************************************************************************)
(* process_book_in_segments up to its first await: the alignment points,   *)
(* the segments, and the entry into the first segment that has a chunk.    *)
(* Without alignment points it returns the empty list.  The three values   *)
(* are each computed once, as the code assigns them once.                  *)
(***************************************************************************)
AlignBook ==
    /\ pc = "segments"
    /\ \E points \in {find_alignment_points(toc_chunks, content_chunks)} :
       \E segs \in {Segments(toc_chunks, content_chunks, points)} :
       \E first \in {NextSegment(content_chunks, segs.content_segments, 0)} :
           /\ alignment_points' = points
           /\ calls' = [k \in 1..Len(content_chunks) |-> 0]
           /\ IF points = <<>>
              THEN /\ pc' = "save"
                   /\ UNCHANGED <<content_segments, toc_segments, seg>>
              ELSE /\ content_segments' = segs.content_segments
                   /\ toc_segments' = segs.toc_segments
                   /\ seg' = IF first = -1 THEN Len(segs.content_segments) ELSE first
                   /\ pc' = IF first = -1 THEN "save" ELSE "loop"
    /\ UNCHANGED <<toc_file, content_file, api_key, toc_chunks, content_chunks,
                   i, current_toc_index, request, last, final_results,
                   output_file, result, successful, failed,
                   semaphore, siblings>>

(***************************************************************************)
(* One pass of the inner loop of process_book_in_segments, cut at its      *)
(* await: CallOracle sends the window and the chunks, OracleReturns takes  *)
(* the answer, emits the record, moves the cursor and steps the loops.     *)
(***************************************************************************)
CallOracle ==
    /\ pc = "loop"
    /\ LET toc_segment == toc_segments[seg + 1]
           segment_content == SegmentContent(content_chunks, content_segments, seg)
           toc_window == get_toc_window(toc_segment, current_toc_index)
           index == content_segments[seg + 1][1] + i
       IN  /\ request' = [chunks |-> LookAhead(segment_content, i),
                          toc_options |-> toc_window]
           /\ calls' = [calls EXCEPT ![index + 1] = @ + 1]
    /\ pc' = "await"
    /\ UNCHANGED <<toc_file, content_file, api_key, toc_chunks, content_chunks,
                   alignment_points, content_segments, toc_segments, seg, i,
                   current_toc_index, last, final_results, output_file,
                   result, successful, failed, semaphore, siblings>>

\* how an answer reads against the options offered: an API failure, a text
\* that does not parse, a first number outside the options, a valid choice
AnswerKind(resp, toc_options) ==
    IF resp.kind # "text" THEN "api_error"
    ELSE IF \E k \in 1..Len(resp.tokens) : ~ParseInt(resp.tokens[k]).ok
    THEN "unparsable"
    ELSE IF ParseInt(resp.tokens[1]).value < 1
            \/ ParseInt(resp.tokens[1]).value > Len(toc_options)
    THEN "out_of_range"
    ELSE "valid"

\* the loop body taking the last TOC chunk returned instead of the first
ClassifiedByLast(toc_segment, content_chunk, cursor, req, resp) ==
    LET out == match_content_to_toc(req.chunks, req.toc_options, resp)
        matched_tocs == out.results
        matched_toc == matched_tocs[Len(matched_tocs)]
        matched_index == IndexOf(toc_segment, matched_toc)
    IN  [raised |-> out.raised,
         logged |-> out.logged,
         emitted |-> IF out.raised \/ matched_tocs = <<>> THEN <<>>
                     ELSE << [Chapter |-> matched_toc.chapter,
                              Section |-> matched_toc.section,
                              Subsection |-> content_chunk.subsection,
                              Content |-> content_chunk.content] >>,
         matched |-> IF out.raised \/ matched_tocs = <<>> THEN 0
                     ELSE matched_toc.id,
         cursor |-> IF out.raised \/ matched_tocs = <<>> \/ matched_index = -1
                    THEN cursor ELSE matched_index]

\* the loop body leaving the cursor where it was
ClassifiedKeepingCursor(toc_segment, content_chunk, cursor, req, resp) ==
    LET out == match_content_to_toc(req.chunks, req.toc_options, resp)
        matched_tocs == out.results
        matched_toc == matched_tocs[1]
    IN  [raised |-> out.raised,
         logged |-> out.logged,
         emitted |-> IF out.raised \/ matched_tocs = <<>> THEN <<>>
                     ELSE << [Chapter |-> matched_toc.chapter,
                              Section |-> matched_toc.section,
                              Subsection |-> content_chunk.subsection,
                              Content |-> content_chunk.content] >>,
         matched |-> IF out.raised \/ matched_tocs = <<>> THEN 0
                     ELSE matched_toc.id,
         cursor |-> cursor]

\* the body of the inner loop after the await, for one answer: the record
\* emitted (if any) and the cursor afterwards
Classified(toc_segment, content_chunk, cursor, req, resp) ==
    LET out == match_content_to_toc(req.chunks, req.toc_options, resp)
        matched_tocs == out.results
        matched_toc == matched_tocs[1]
        matched_index == IndexOf(toc_segment, matched_toc)
    IN  [raised |-> out.raised,
         logged |-> out.logged,
         emitted |-> IF out.raised \/ matched_tocs = <<>> THEN <<>>
                     ELSE << [Chapter |-> matched_toc.chapter,
                              Section |-> matched_toc.section,
                              Subsection |-> content_chunk.subsection,
                              Content |-> content_chunk.content] >>,
         matched |-> IF out.raised \/ matched_tocs = <<>> THEN 0
                     ELSE matched_toc.id,
         cursor |-> IF out.raised \/ matched_tocs = <<>> \/ matched_index = -1
                    THEN cursor ELSE matched_index]

\* the loop calling the Oracle again for the same chunk after a failed call
OracleReturnsRetrying(resp) ==
    IF resp.kind = "raise"
    THEN /\ pc = "await"
         /\ pc' = "loop"
         /\ request' = NoRequest
         /\ UNCHANGED <<toc_file, content_file, api_key, toc_chunks,
                        content_chunks, alignment_points, content_segments,
                        toc_segments, seg, i, current_toc_index, calls, last,
                        final_results, output_file, result, successful,
                        failed, semaphore, siblings>>
    ELSE
         /\ pc = "await"
         /\ LET toc_segment == toc_segments[seg + 1]
                segment_content == SegmentContent(content_chunks, content_segments, seg)
                step == Classified(toc_segment, segment_content[i + 1],
                                   current_toc_index, request, resp)
                next == NextSegment(content_chunks, content_segments, seg + 1)
            IN  /\ last' = [answer |-> AnswerKind(resp, request.toc_options),
                            index |-> content_segments[seg + 1][1] + i,
                            toc_options |-> request.toc_options,
                            nchunks |-> Len(request.chunks),
                            matched |-> step.matched,
                            logged |-> step.logged,
                            cursor |-> step.cursor]
                /\ final_results' = final_results \o step.emitted
                /\ IF step.raised
                   THEN /\ pc' = "returned"
                        /\ result' = "None"
                        /\ UNCHANGED <<seg, i, current_toc_index>>
                   ELSE /\ result' = result
                        /\ IF i + 1 < Len(segment_content)
                           THEN /\ i' = i + 1
                                /\ current_toc_index' = step.cursor
                                /\ pc' = "loop"
                                /\ seg' = seg
                           ELSE /\ i' = 0
                                /\ current_toc_index' = 0
                                /\ seg' = IF next = -1 THEN Len(content_segments) ELSE next
                                /\ pc' = IF next = -1 THEN "save" ELSE "loop"
         /\ request' = NoRequest
         /\ UNCHANGED <<toc_file, content_file, api_key, toc_chunks, content_chunks,
                        alignment_points, content_segments, toc_segments, calls,
                        output_file, successful, failed, semaphore, siblings>>

OracleReturns(resp) ==
    /\ pc = "await"
    /\ LET toc_segment == toc_segments[seg + 1]
           segment_content == SegmentContent(content_chunks, content_segments, seg)
           step == Classified(toc_segment, segment_content[i + 1],
                              current_toc_index, request, resp)
           next == NextSegment(content_chunks, content_segments, seg + 1)
       IN  /\ last' = [answer |-> AnswerKind(resp, request.toc_options),
                       index |-> content_segments[seg + 1][1] + i,
                       toc_options |-> request.toc_options,
                       nchunks |-> Len(request.chunks),
                       matched |-> step.matched,
                       logged |-> step.logged,
                       cursor |-> step.cursor]
           /\ final_results' = final_results \o step.emitted
           /\ IF step.raised
              THEN /\ pc' = "returned"
                   /\ result' = "None"
                   /\ UNCHANGED <<seg, i, current_toc_index>>
              ELSE /\ result' = result
                   /\ IF i + 1 < Len(segment_content)
                      THEN /\ i' = i + 1
                           /\ current_toc_index' = step.cursor
                           /\ pc' = "loop"
                           /\ seg' = seg
                      ELSE /\ i' = 0
                           /\ current_toc_index' = 0
                           /\ seg' = IF next = -1 THEN Len(content_segments) ELSE next
                           /\ pc' = IF next = -1 THEN "save" ELSE "loop"
    /\ request' = NoRequest
    /\ UNCHANGED <<toc_file, content_file, api_key, toc_chunks, content_chunks,
                   alignment_points, content_segments, toc_segments, calls,
                   output_file, successful, failed, semaphore, siblings>>

(***************************************************************************)
(* process_single_book after process_book_in_segments: an empty result     *)
(* raises; otherwise the file is opened and written, which the disk may    *)
(* refuse at open() or in json.dump().                                     *)
(***************************************************************************)
DiskOutcomes == {"ok", "open_fails", "dump_fails"}

\* SaveResults without the check for an empty result
SaveResultsNoCheck(disk) ==
    /\ pc = "save"
    /\ result' = IF disk = "ok" THEN "output_path" ELSE "None"
    /\ output_file' =
           CASE disk = "ok" -> [state |-> "written", records |-> final_results]
             [] disk = "open_fails" -> output_file
             [] OTHER -> [state |-> "partial", records |-> <<>>]
    /\ pc' = "returned"
    /\ UNCHANGED <<toc_file, content_file, api_key, toc_chunks, content_chunks,
                   alignment_points, content_segments, toc_segments, seg, i,
                   current_toc_index, request, calls, last, final_results,
                   successful, failed, semaphore, siblings>>

\* SaveResults trying the write again after a failed one
SaveResultsRetrying(disk) ==
    /\ pc = "save"
    /\ IF final_results = <<>>
       THEN /\ result' = "None"
            /\ output_file' = output_file
            /\ pc' = "returned"
       ELSE /\ result' = IF disk = "ok" THEN "output_path" ELSE result
            /\ output_file' =
                   CASE disk = "ok" -> [state |-> "written", records |-> final_results]
                     [] disk = "open_fails" -> output_file
                     [] OTHER -> [state |-> "partial", records |-> <<>>]
            /\ pc' = IF disk = "ok" THEN "returned" ELSE "save"
    /\ UNCHANGED <<toc_file, content_file, api_key, toc_chunks, content_chunks,
                   alignment_points, content_segments, toc_segments, seg, i,
                   current_toc_index, request, calls, last, final_results,
                   successful, failed, semaphore, siblings>>

SaveResults(disk) ==
    /\ pc = "save"
    /\ IF final_results = <<>>
       THEN /\ result' = "None"
            /\ output_file' = output_file
       ELSE /\ result' = IF disk = "ok" THEN "output_path" ELSE "None"
            /\ output_file' =
                   CASE disk = "ok" -> [state |-> "written", records |-> final_results]
                     [] disk = "open_fails" -> output_file
                     [] OTHER -> [state |-> "partial", records |-> <<>>]
    /\ pc' = "returned"
    /\ UNCHANGED <<toc_file, content_file, api_key, toc_chunks, content_chunks,
                   alignment_points, content_segments, toc_segments, seg, i,
                   current_toc_index, request, calls, last, final_results,
                   successful, failed, semaphore, siblings>>

(***************************************************************************)
(* process_all_books after gather: every result that is None or an         *)
(* exception counts as failed, every other result as successful.           *)
(***************************************************************************)
CountResults(results, Counted(_)) ==
    Cardinality({k \in 1..Len(results) : Counted(results[k])})

IsFailure(r) == r = "None" \/ r = "exception"
IsSuccess(r) == ~IsFailure(r)

\* the reason the summary prints for a failed result: the text of the
\* exception gather returned, "Unknown error" for None
FailureReason(r) == IF r = "exception" THEN "str(result)" ELSE "Unknown error"

Summary ==
    /\ pc = "returned"
    /\ LET results == <<result>>
       IN  /\ successful' = CountResults(results, IsSuccess)
           /\ failed' = CountResults(results, IsFailure)
    /\ pc' = "done"
    /\ UNCHANGED <<toc_file, content_file, api_key, toc_chunks, content_chunks,
                   alignment_points, content_segments, toc_segments, seg, i,
                   current_toc_index, request, calls, last, final_results,
                   output_file, result, semaphore, siblings>>

Next ==
    \/ LoadBook
    \/ AlignBook
    \/ CallOracle
    \/ \E resp \in Responses : OracleReturns(resp)
    \/ \E disk \in DiskOutcomes : SaveResults(disk)
    \/ Summary

Spec == Init /\ [][Next]_vars

(***************************************************************************)
(* get_toc_window on its own: every TOC slice of up to MaxSlice chunks and *)
(* every cursor from -1 to MaxCursor, as at line 429 of the inner loop.    *)
(***************************************************************************)
\* a TOC of n chunks, its items taken in turn from the three of the model
LongToc(n) ==
    LET items == << [Chapter |-> Ch1, Section |-> SecJoined],
                    [Chapter |-> Ch1, Section |-> SecCellWall],
                    [Chapter |-> Ch2, Section |-> SecDnaCode] >>
    IN  load_toc([state |-> "list",
                  items |-> [k \in 1..n |-> items[(k % 3) + 1]]])

WindowInit ==
    /\ toc_file = [state |-> "missing", items |-> <<>>]
    /\ content_file = [state |-> "missing", items |-> <<>>]
    /\ api_key = TRUE
    /\ pc = "window"
    /\ \E n \in 0..MaxSlice : toc_chunks = LongToc(n)
    /\ content_chunks = <<>>
    /\ alignment_points = <<>>
    /\ content_segments = <<>>
    /\ toc_segments = <<toc_chunks>>
    /\ seg = 0
    /\ i = 0
    /\ current_toc_index \in (-1)..MaxCursor
    /\ request = NoRequest
    /\ calls = <<>>
    /\ last = NoCall
    /\ final_results = <<>>
    /\ output_file = NoFile
    /\ result = "pending"
    /\ successful = 0
    /\ failed = 0
    /\ semaphore = SemaphoreCapacity
    /\ siblings = Siblings(0)

TakeWindow ==
    /\ pc = "window"
    /\ request' = [chunks |-> <<>>,
                   toc_options |-> get_toc_window(toc_segments[seg + 1],
                                                  current_toc_index)]
    /\ pc' = "windowed"
    /\ UNCHANGED <<toc_file, content_file, api_key, toc_chunks, content_chunks,
                   alignment_points, content_segments, toc_segments, seg, i,
                   current_toc_index, calls, last, final_results, output_file,
                   result, successful, failed, semaphore, siblings>>

SpecWindow == WindowInit /\ [][TakeWindow]_vars

(***************************************************************************)
(* process_all_books: the book followed above among the other books of the *)
(* batch.  Every book is one process_with_semaphore task: it takes a       *)
(* permit of the semaphore, runs process_single_book and gives the permit  *)
(* back; gather keeps the result of every task.  The other books are       *)
(* counted by where their task stands: created, inside                     *)
(* process_single_book, returned with an output path, returned None.       *)
(***************************************************************************)
MaxBooks == 21

\* a TOC file and a content file holding these items
TocFileOf(items) == [state |-> "list", items |-> items]
ContentFileOf(heads) ==
    [state |-> "list",
     items |-> [j \in 1..Len(heads) |-> [Subsection |-> heads[j], Content |-> j]]]

\* a book of one chunk; a book of two chunks in one segment; a book without
\* alignment point; a book whose TOC file is missing
OneChunkBook ==
    [toc |-> TocFileOf(<< [Chapter |-> Ch1, Section |-> SecCellWall] >>),
     content |-> ContentFileOf(<<HeadCellWall>>)]

TwoChunkBook ==
    [toc |-> TocFileOf(<< [Chapter |-> Ch1, Section |-> SecCellWall],
                          [Chapter |-> Ch2, Section |-> SecDnaCode] >>),
     content |-> ContentFileOf(<<HeadCellWall, HeadIntro>>)]

NoAnchorBook ==
    [toc |-> TocFileOf(<< [Chapter |-> Ch1, Section |-> SecJoined] >>),
     content |-> ContentFileOf(<<HeadIntro>>)]

NoTocBook ==
    [toc |-> [state |-> "missing", items |-> <<>>],
     content |-> ContentFileOf(<<HeadCellWall>>)]

\* the batches followed: a batch of MaxBooks books around the book of one
\* chunk, and a batch of five books around each of the other books
Batches ==
    { [book |-> OneChunkBook, others |-> MaxBooks - 1] } \cup
    { [book |-> b, others |-> 4] : b \in {TwoChunkBook, NoAnchorBook, NoTocBook} }

BatchInit ==
    /\ \E batch \in Batches :
           /\ toc_file = batch.book.toc
           /\ content_file = batch.book.content
           /\ siblings = Siblings(batch.others)
    /\ api_key = TRUE
    /\ pc = "queued"
    /\ toc_chunks = <<>>
    /\ content_chunks = <<>>
    /\ alignment_points = <<>>
    /\ content_segments = <<>>
    /\ toc_segments = <<>>
    /\ seg = 0
    /\ i = 0
    /\ current_toc_index = 0
    /\ request = NoRequest
    /\ calls = <<>>
    /\ last = NoCall
    /\ final_results = <<>>
    /\ output_file = NoFile
    /\ result = "pending"
    /\ successful = 0
    /\ failed = 0
    /\ semaphore = SemaphoreCapacity

\* "async with semaphore": the task goes on once a permit is free
AcquirePermit ==
    /\ pc = "queued"
    /\ semaphore > 0
    /\ semaphore' = semaphore - 1
    /\ pc' = "load"
    /\ UNCHANGED <<toc_file, content_file, api_key, toc_chunks, content_chunks,
                   alignment_points, content_segments, toc_segments, seg, i,
                   current_toc_index, request, calls, last, final_results,
                   output_file, result, successful, failed, siblings>>

\* the permit given back only by a book that returned an output path
ReleasePermitOnSuccess ==
    /\ pc = "returned"
    /\ semaphore' = IF result = "None" THEN semaphore ELSE semaphore + 1
    /\ pc' = "released"
    /\ UNCHANGED <<toc_file, content_file, api_key, toc_chunks, content_chunks,
                   alignment_points, content_segments, toc_segments, seg, i,
                   current_toc_index, request, calls, last, final_results,
                   output_file, result, successful, failed, siblings>>

\* the end of "async with semaphore": process_single_book has returned, with
\* an output path or with None, and the permit is given back
ReleasePermit ==
    /\ pc = "returned"
    /\ semaphore' = semaphore + 1
    /\ pc' = "released"
    /\ UNCHANGED <<toc_file, content_file, api_key, toc_chunks, content_chunks,
                   alignment_points, content_segments, toc_segments, seg, i,
                   current_toc_index, request, calls, last, final_results,
                   output_file, result, successful, failed, siblings>>

\* another book's task takes a permit and enters process_single_book
SiblingEnters ==
    /\ siblings.queued > 0
    /\ semaphore > 0
    /\ semaphore' = semaphore - 1
    /\ siblings' = [siblings EXCEPT !.queued = @ - 1, !.inside = @ + 1]
    /\ UNCHANGED <<toc_file, content_file, api_key, pc, toc_chunks,
                   content_chunks, alignment_points, content_segments,
                   toc_segments, seg, i, current_toc_index, request, calls,
                   last, final_results, output_file, result, successful, failed>>

\* the results process_single_book ends with
BookResults == {"output_path", "None"}

\* the book followed is inside process_single_book
InsideBook == pc \in {"load", "segments", "loop", "await", "save"}

\* a sibling's failure ending the book followed as well, as a gather that
\* cancels the remaining tasks on the first failure would
SiblingReturnsCancelling(r) ==
    /\ siblings.inside > 0
    /\ semaphore' = semaphore + 1
    /\ siblings' = IF r = "None"
                   THEN [siblings EXCEPT !.inside = @ - 1, !.nones = @ + 1]
                   ELSE [siblings EXCEPT !.inside = @ - 1, !.paths = @ + 1]
    /\ IF r = "None" /\ InsideBook
       THEN pc' = "returned" /\ result' = "None" /\ request' = NoRequest
       ELSE UNCHANGED <<pc, result, request>>
    /\ UNCHANGED <<toc_file, content_file, api_key, toc_chunks,
                   content_chunks, alignment_points, content_segments,
                   toc_segments, seg, i, current_toc_index, calls,
                   last, final_results, output_file, successful, failed>>

\* another book's process_single_book returns r (None after any exception)
\* and its permit is given back
SiblingReturns(r) ==
    /\ siblings.inside > 0
    /\ semaphore' = semaphore + 1
    /\ siblings' = IF r = "None"
                   THEN [siblings EXCEPT !.inside = @ - 1, !.nones = @ + 1]
                   ELSE [siblings EXCEPT !.inside = @ - 1, !.paths = @ + 1]
    /\ UNCHANGED <<toc_file, content_file, api_key, pc, toc_chunks,
                   content_chunks, alignment_points, content_segments,
                   toc_segments, seg, i, current_toc_index, request, calls,
                   last, final_results, output_file, result, successful, failed>>

\* the list gather returns, the siblings' results before the book's
GatheredResults ==
    Repeat("output_path", siblings.paths) \o Repeat("None", siblings.nones)
        \o <<result>>

\* process_all_books after gather, once every task has ended
BatchSummary ==
    /\ pc = "released"
    /\ siblings.queued = 0
    /\ siblings.inside = 0
    /\ successful' = CountResults(GatheredResults, IsSuccess)
    /\ failed' = CountResults(GatheredResults, IsFailure)
    /\ pc' = "done"
    /\ UNCHANGED <<toc_file, content_file, api_key, toc_chunks, content_chunks,
                   alignment_points, content_segments, toc_segments, seg, i,
                   current_toc_index, request, calls, last, final_results,
                   output_file, result, semaphore, siblings>>

BatchNext ==
    \/ AcquirePermit
    \/ LoadBook
    \/ AlignBook
    \/ CallOracle
    \/ \E resp \in Responses : OracleReturns(resp)
    \/ \E disk \in DiskOutcomes : SaveResults(disk)
    \/ ReleasePermit
    \/ SiblingEnters
    \/ \E r \in BookResults : SiblingReturns(r)
    \/ BatchSummary

SpecBatch == BatchInit /\ [][BatchNext]_vars

(***************************************************************************)
(* The batch under the scheduling of the event loop: a task that can take  *)
(* its next step takes it, an Oracle call in flight returns or raises, and *)
(* process_all_books goes on once gather has every result.                 *)
(***************************************************************************)
\* the steps of the task of the book followed
BookStep ==
    \/ AcquirePermit
    \/ LoadBook
    \/ AlignBook
    \/ CallOracle
    \/ \E resp \in Responses : OracleReturns(resp)
    \/ \E disk \in DiskOutcomes : SaveResults(disk)
    \/ ReleasePermit

BatchFairness ==
    /\ WF_vars(BookStep)
    /\ WF_vars(SiblingEnters)
    /\ WF_vars(\E r \in BookResults : SiblingReturns(r))
    /\ WF_vars(BatchSummary)

\* the number of siblings in the batches followed to their end
MaxSiblings == 2

\* a batch of MaxSiblings + 1 books around each of three books
SmallBatches ==
    { [book |-> b, others |-> MaxSiblings] :
        b \in {TwoChunkBook, NoAnchorBook, NoTocBook} }

SmallBatchInit ==
    /\ \E batch \in SmallBatches :
           /\ toc_file = batch.book.toc
           /\ content_file = batch.book.content
           /\ siblings = Siblings(batch.others)
    /\ api_key = TRUE
    /\ pc = "queued"
    /\ toc_chunks = <<>>
    /\ content_chunks = <<>>
    /\ alignment_points = <<>>
    /\ content_segments = <<>>
    /\ toc_segments = <<>>
    /\ seg = 0
    /\ i = 0
    /\ current_toc_index = 0
    /\ request = NoRequest
    /\ calls = <<>>
    /\ last = NoCall
    /\ final_results = <<>>
    /\ output_file = NoFile
    /\ result = "pending"
    /\ successful = 0
    /\ failed = 0
    /\ semaphore = SemaphoreCapacity

SpecBatchFair == SmallBatchInit /\ [][BatchNext]_vars /\ BatchFairness

(***************************************************************************)
(* Whole books followed one at a time: the book of three TOC entries whose *)
(* second entry is the first heading, a book whose anchor comes after two  *)
(* chunks and is followed by three more, and a book with a TOC longer than *)
(* the window.  The Oracle answers one number from 0 to 9, a text that is  *)
(* no number, or the call raises.                                          *)
(***************************************************************************)
SecCellStructure == <<"C", "e", "l", "l", " ", "S", "t", "r", "u", "c", "t", "u", "r", "e">>
SecGenetics == <<"G", "e", "n", "e", "t", "i", "c", "s">>
HeadCellStructure == <<"C", "e", "l", "l", " ", "S", "t", "r", "u", "c", "t", "u", "r", "e">>
HeadDnaBasics == <<"D", "N", "A", " ", "b", "a", "s", "i", "c", "s">>

StructureBook ==
    [toc |-> TocFileOf(<< [Chapter |-> Ch1, Section |-> HeadIntro],
                          [Chapter |-> Ch1, Section |-> SecCellStructure],
                          [Chapter |-> Ch2, Section |-> SecGenetics] >>),
     content |-> ContentFileOf(<<HeadCellStructure, HeadDnaBasics>>)]

LateAnchorBook ==
    [toc |-> TocFileOf(<< [Chapter |-> Ch1, Section |-> SecCellWall],
                          [Chapter |-> Ch2, Section |-> SecDnaCode] >>),
     content |-> ContentFileOf(<<HeadIntro, HeadIntro, HeadCellWall,
                                 HeadIntro, HeadIntro, HeadIntro>>)]

\* MaxSlice TOC entries, the first of them the heading of the first chunk
LongTocBook ==
    [toc |-> TocFileOf([k \in 1..MaxSlice |->
                 << [Chapter |-> Ch1, Section |-> SecCellWall],
                    [Chapter |-> Ch2, Section |-> SecDnaCode],
                    [Chapter |-> Ch1, Section |-> SecJoined] >>[((k - 1) % 3) + 1]]),
     content |-> ContentFileOf(<<HeadCellWall, HeadIntro, HeadIntro>>)]

WholeBooks == {StructureBook, LateAnchorBook, LongTocBook}

BooksInit ==
    /\ \E book \in WholeBooks :
           /\ toc_file = book.toc
           /\ content_file = book.content
    /\ api_key = TRUE
    /\ pc = "load"
    /\ toc_chunks = <<>>
    /\ content_chunks = <<>>
    /\ alignment_points = <<>>
    /\ content_segments = <<>>
    /\ toc_segments = <<>>
    /\ seg = 0
    /\ i = 0
    /\ current_toc_index = 0
    /\ request = NoRequest
    /\ calls = <<>>
    /\ last = NoCall
    /\ final_results = <<>>
    /\ output_file = NoFile
    /\ result = "pending"
    /\ successful = 0
    /\ failed = 0
    /\ semaphore = SemaphoreCapacity
    /\ siblings = Siblings(0)

\* response.choices[0].message.content of one token
OneTokenResponses ==
    { [kind |-> "raise"], [kind |-> "text", tokens |-> << <<"x">> >>] } \cup
    { [kind |-> "text", tokens |-> << <<Digits[d]>> >>] : d \in 1..10 }

BooksNext ==
    \/ LoadBook
    \/ AlignBook
    \/ CallOracle
    \/ \E resp \in OneTokenResponses : OracleReturns(resp)
    \/ \E disk \in DiskOutcomes : SaveResults(disk)
    \/ Summary

SpecBooks == BooksInit /\ [][BooksNext]_vars

(***************************************************************************)
(* Properties.                                                             *)
(***************************************************************************)
\* both files loaded to non-empty lists and the API key was found
LoadedOk == toc_chunks # <<>> /\ content_chunks # <<>> /\ api_key

\* process_book_in_segments has run through all its segments
SegmentsDone == pc \in {"save", "returned", "done"} /\ alignment_points # <<>>

\* C1: a book with at least one alignment point and no load or write error
\* ends with exactly one merged record per content chunk, whatever the
\* answers of the Oracle were; the file, when written, holds as many records.
C1_OneRecordPerChunk ==
    /\ SegmentsDone => Len(final_results) = Len(content_chunks)
    /\ output_file.state = "written" =>
           Len(output_file.records) = Len(content_chunks)

C1_Witness ==
    /\ pc = "done"
    /\ alignment_points # <<>>
    /\ Len(content_chunks) = 2
    /\ Len(final_results) = 2
    /\ last.answer = "api_error"
    /\ output_file.state = "written"

\* C2: the k-th record emitted carries the subsection and the content of the
\* k-th content chunk, at every moment of the run and across segments.
C2_ContentOrder ==
    /\ Len(final_results) <= Len(content_chunks)
    /\ \A k \in 1..Len(final_results) :
           /\ final_results[k].Subsection = content_chunks[k].subsection
           /\ final_results[k].Content = content_chunks[k].content

C2_Witness ==
    /\ pc = "done"
    /\ content_segments = << <<0, 0>>, <<0, 1>>, <<1, 2>> >>
    /\ Len(final_results) = 2
    /\ final_results[1].Content # final_results[2].Content

\* the segments have been built
SegmentsBuilt == content_segments # <<>>

\* C3: the content ranges, in order, partition [0, N): the first starts at 0,
\* the last ends at N, each end is the next start, and start <= end.
C3_Partition ==
    SegmentsBuilt =>
        /\ content_segments[1][1] = 0
        /\ content_segments[Len(content_segments)][2] = Len(content_chunks)
        /\ \A n \in 1..Len(content_segments) :
               content_segments[n][1] <= content_segments[n][2]
        /\ \A n \in 1..(Len(content_segments) - 1) :
               content_segments[n][2] = content_segments[n + 1][1]
        /\ Len(toc_segments) = Len(content_segments)

C3_Witness ==
    /\ SegmentsBuilt
    /\ Len(content_segments) = 3
    /\ content_segments[2][1] < content_segments[2][2]
    /\ content_segments[3][1] < content_segments[3][2]

\* an Oracle call returns in this step
CallReturns == pc = "await" /\ pc' # "await"

\* the record made of the first option offered and of the chunk sent first
FallbackRecord ==
    [Chapter |-> request.toc_options[1].chapter,
     Section |-> request.toc_options[1].section,
     Subsection |-> request.chunks[1].subsection,
     Content |-> request.chunks[1].content]

\* the loop moves on to the next chunk of the book, or ends after the last
ChunkAdvanced ==
    \/ pc' = "loop" /\ seg' = seg /\ i' = i + 1
    \/ pc' = "loop" /\ seg' > seg /\ i' = 0
    \/ pc' = "save" /\ Len(final_results') = Len(content_chunks)

\* C4: when the answer cannot be parsed into numbers, or the call raises, the
\* first option of the window is selected for the current chunk, exactly one
\* log entry is written for the call, and nothing is raised to the caller.
C4_FallbackOnBadAnswer ==
    [][(CallReturns /\ last'.answer \in {"unparsable", "api_error"}) =>
          /\ last'.matched = request.toc_options[1].id
          /\ final_results' = Append(final_results, FallbackRecord)
          /\ Len(last'.logged) = 1
          /\ pc' \in {"loop", "save"}
          /\ result' = result]_vars

C4_Witness ==
    /\ last.answer = "unparsable"
    /\ Len(last.toc_options) >= 2
    /\ last.matched = last.toc_options[1].id
    /\ last.logged = <<ParseError>>

\* C5: when the first number of the answer is below 1 or above the length of
\* the window, the first option is selected, a log entry is written, a record
\* is emitted and the loop moves on to the next chunk.
C5_OutOfRangeLogged ==
    [][(CallReturns /\ last'.answer = "out_of_range") =>
          /\ last'.matched = request.toc_options[1].id
          /\ final_results' = Append(final_results, FallbackRecord)
          /\ Len(last'.logged) >= 1
          /\ ChunkAdvanced]_vars

\* what the loop does with an answer to the call in flight
Outcome(resp) ==
    Classified(toc_segments[seg + 1],
               SegmentContent(content_chunks, content_segments, seg)[i + 1],
               current_toc_index, request, resp)

TextResponses == {r \in Responses : r.kind = "text"}
Single(token) == [kind |-> "text", tokens |-> <<token>>]

\* the first token of the answer is a number of an option offered
FirstIsOption(resp, toc_options) ==
    /\ ParseInt(resp.tokens[1]).ok
    /\ ParseInt(resp.tokens[1]).value \in 1..Len(toc_options)

\* resp and the one-number answer <<token>> select the same first number
SameFirst(resp, token) ==
    ParseInt(token).ok /\ ParseInt(token).value = ParseInt(resp.tokens[1]).value

\* C6 as stated: any two answers whose first selection is the same valid
\* option give the same record and the same next cursor, whatever follows the
\* first selection (each answer is compared with the one-number answer).
C6_AnyRemainder ==
    pc = "await" =>
        \A r \in TextResponses : \A t \in FirstTokens :
            (FirstIsOption(r, request.toc_options) /\ SameFirst(r, t)) =>
                /\ Outcome(r).emitted = Outcome(Single(t)).emitted
                /\ Outcome(r).cursor = Outcome(Single(t)).cursor

\* C6 amended: any two answers that parse completely into numbers and whose
\* first number is the same valid option give the same record and the same
\* next cursor, whatever the numbers after the first are.
C6_FirstSelectionOnly ==
    pc = "await" =>
        \A r \in TextResponses : \A t \in FirstTokens :
            (AnswerKind(r, request.toc_options) = "valid" /\ SameFirst(r, t)) =>
                /\ Outcome(r).emitted = Outcome(Single(t)).emitted
                /\ Outcome(r).cursor = Outcome(Single(t)).cursor
                /\ Outcome(r).raised = Outcome(Single(t)).raised

C6_Witness ==
    /\ last.answer = "valid"
    /\ Len(last.toc_options) >= 2
    /\ last.matched = last.toc_options[2].id
    /\ \E r \in TextResponses :
           /\ AnswerKind(r, last.toc_options) = "valid"
           /\ Len(r.tokens) >= 2
           /\ ParseInt(r.tokens[1]).value = 2
           /\ ParseInt(r.tokens[2]).value # 2

ZeroAnchors ==
    /\ pc \in {"save", "returned", "done"}
    /\ LoadedOk
    /\ find_alignment_points(toc_chunks, content_chunks) = <<>>

NoOracleCall ==
    /\ \A k \in 1..Len(calls) : calls[k] = 0
    /\ request = NoRequest
    /\ last = NoCall

\* C9: with zero alignment points the book ends with no record, no Oracle
\* call and no output file, and the summary counts it as one failed book.
C9_ZeroAnchorsAbort ==
    ZeroAnchors =>
        /\ final_results = <<>>
        /\ NoOracleCall
        /\ output_file = NoFile
        /\ pc # "save" => result = "None"
        /\ pc = "done" => (failed = 1 /\ successful = 0)

C9_Witness ==
    /\ ZeroAnchors
    /\ pc = "done"
    /\ Len(content_chunks) = 2
    /\ failed = 1

\* the TOC or the content file is missing, unparsable, or loads to nothing
LoadProblem ==
    \/ LoadRaises(toc_file)
    \/ load_toc(toc_file) = <<>>
    \/ LoadRaises(content_file)
    \/ load_content(content_file) = <<>>

\* C10: with a missing, unparsable or empty TOC or content the book ends at
\* the load step: no Oracle call, no output file, and the summary counts it
\* as one failed book.
C10_LoadFailureAborts ==
    LoadProblem =>
        /\ pc \in {"load", "returned", "done"}
        /\ NoOracleCall
        /\ final_results = <<>>
        /\ output_file = NoFile
        /\ pc # "load" => result = "None"
        /\ pc = "done" => (failed = 1 /\ successful = 0)

C10_Witness ==
    /\ pc = "done"
    /\ toc_chunks # <<>>
    /\ content_file.state = "list"
    /\ content_file.items # <<>>
    /\ load_content(content_file) = <<>>
    /\ api_key
    /\ failed = 1

(***************************************************************************)
(* The batch.                                                              *)
(***************************************************************************)
\* the books of the batch: the book followed and its siblings
Books == 1 + siblings.queued + siblings.inside + siblings.paths + siblings.nones

\* the book's own inputs make process_single_book fail before any call
OwnAbort ==
    \/ LoadProblem
    \/ ~api_key
    \/ find_alignment_points(load_toc(toc_file), load_content(content_file)) = <<>>

\* process_single_book of the book followed has ended
BookEnded == pc \in {"released", "done"}

\* C11: whatever the siblings do and however many of them fail, the book
\* followed ends as its own inputs decide: it fails without output when its
\* own load or alignment aborts; otherwise every chunk was classified once, in
\* content order, and it returns its output path exactly when its own file
\* was written with all its records.  The summary counts every book once,
\* the failed siblings as failed and the others as successful.
C11_SiblingsIndependent ==
    /\ (BookEnded /\ OwnAbort) =>
           /\ result = "None"
           /\ final_results = <<>>
           /\ output_file = NoFile
    /\ (BookEnded /\ ~OwnAbort) =>
           /\ Len(final_results) = Len(load_content(content_file))
           /\ \A k \in 1..Len(final_results) :
                  final_results[k].Content = load_content(content_file)[k].content
           /\ \A k \in 1..Len(calls) : calls[k] = 1
           /\ result = "output_path" <=> output_file.state = "written"
           /\ output_file.state = "written" => output_file.records = final_results
    /\ pc = "done" =>
           /\ successful + failed = Books
           /\ failed = siblings.nones + (IF result = "None" THEN 1 ELSE 0)
           /\ successful = siblings.paths + (IF result = "None" THEN 0 ELSE 1)

\* five books, one sibling failed, the four others wrote their files
C11_Witness ==
    /\ pc = "done"
    /\ Books = 5
    /\ siblings.nones = 1
    /\ result = "output_path"
    /\ Len(output_file.records) = 2
    /\ successful = 4
    /\ failed = 1

\* the books inside "async with semaphore"
Inside == siblings.inside + (IF InsideBook \/ pc = "returned" THEN 1 ELSE 0)

ErrorMessage ==
    CASE LoadRaises(toc_file) -> "toc file cannot be read"
      [] load_toc(toc_file) = <<>> -> "No TOC chunks loaded"
      [] LoadRaises(content_file) -> "content file cannot be read"
      [] load_content(content_file) = <<>> -> "No content chunks loaded"
      [] ~api_key -> "OPENAI_API_KEY not found in environment variables"
      [] final_results = <<>> -> "No results were successfully merged"
      [] OTHER -> "output file cannot be written"

\* C13: the summary reports succeeded + failed = number of file pairs, and
\* for the failed book it carries the reason of the failure (load, missing
\* alignment points, or write failure).
C13_ReasonsInAggregate ==
    pc = "done" =>
        /\ successful + failed = Books
        /\ result = "None" => FailureReason(result) = ErrorMessage

\* the content index of the chunk the loop stands at
LoopIndex == content_segments[seg + 1][1] + i

\* C14: in every interleaving with the siblings, the chunks of the book are
\* classified one after the other: when the loop stands at chunk k, every
\* chunk before k has had exactly one call, which has returned and left its
\* record, no chunk after k has had a call, at most the call for chunk k is
\* outstanding, its window was taken at the cursor the previous call of the
\* segment left, and at the end every chunk has had exactly one call.
C14_SequentialCalls ==
    /\ pc \in {"loop", "await"} =>
           /\ Len(final_results) = LoopIndex
           /\ \A k \in 1..Len(calls) :
                  calls[k] = IF k <= LoopIndex \/ (k = LoopIndex + 1 /\ pc = "await")
                             THEN 1 ELSE 0
           /\ pc = "loop" => request = NoRequest
           /\ i = 0 => current_toc_index = 0
           /\ i > 0 =>
                  /\ last.index = LoopIndex - 1
                  /\ toc_segments[seg + 1][current_toc_index + 1].id = last.matched
    /\ pc = "await" =>
           /\ request.chunks[1] = content_chunks[LoopIndex + 1]
           /\ request.toc_options =
                  get_toc_window(toc_segments[seg + 1], current_toc_index)
    /\ (pc \in {"save", "returned", "released", "done"} /\ alignment_points # <<>>) =>
           \A k \in 1..Len(calls) : calls[k] = 1

\* the call for the second chunk is outstanding, after the first chose the
\* second entry of the slice, while a sibling is inside its own run
C14_Witness ==
    /\ pc = "await"
    /\ i = 1
    /\ calls = <<1, 1>>
    /\ current_toc_index = 1
    /\ last.matched = toc_segments[seg + 1][2].id
    /\ siblings.inside >= 1

(***************************************************************************)
(* Alignment points and segments.                                          *)
(***************************************************************************)
\* process_book_in_segments has computed the alignment points
PointsFound == LoadedOk /\ pc \notin {"load", "segments"}

\* the numbers of a list
Range(seq) == {seq[k] : k \in 1..Len(seq)}

\* the heading of chunk c (0-based) is, but for case, the section of a TOC
\* chunk of at least two words
ExactHeading(c) ==
    \E k \in 1..Len(toc_chunks) :
        /\ WordCount(toc_chunks[k].section) >= 2
        /\ Lower(toc_chunks[k].section) = Lower(content_chunks[c + 1].subsection)

\* C15: every content chunk whose heading equals, but for case, the section
\* of a TOC chunk of at least two words is an alignment point.
C15_ExactHeadingIsAnchor ==
    PointsFound =>
        \A c \in 0..(Len(content_chunks) - 1) :
            ExactHeading(c) => c \in Range(alignment_points)

\* "cell wall" is found under "Cell Wall" and "DNA Code" under "DNA Code"
C15_Witness ==
    /\ PointsFound
    /\ alignment_points = <<0, 1>>
    /\ content_chunks[1].subsection = HeadCellWall
    /\ content_chunks[2].subsection = HeadDnaCode
    /\ ExactHeading(0)
    /\ ExactHeading(1)

\* the segments cut at an alignment point: every segment but the last
CutSegments == 1..(Len(content_segments) - 1)

\* the content index and the TOC chunk of the n-th cut
CutPoint(n) == content_segments[n][2]
CutToc(n) == toc_segments[n][Len(toc_segments[n])]

\* C16: every (content index, TOC index) pair at which the segments are cut
\* is an anchor point: the section is more than 0.9 similar to the heading
\* and has more than one word.
C16_CutsAreAnchorPoints ==
    SegmentsBuilt =>
        \A n \in CutSegments :
            /\ WordCount(CutToc(n).section) > 1
            /\ similar_text_above(CutToc(n).section,
                                  content_chunks[CutPoint(n) + 1].subsection, 9, 10)

\* C17: every alignment point is the start of a segment, none lies strictly
\* inside a segment, and there is one segment more than alignment points.
C17_PointsStartSegments ==
    SegmentsBuilt =>
        /\ \A p \in Range(alignment_points) :
               \E n \in 1..Len(content_segments) : content_segments[n][1] = p
        /\ \A p \in Range(alignment_points) :
               \A n \in 1..Len(content_segments) :
                   ~(content_segments[n][1] < p /\ p < content_segments[n][2])
        /\ Len(content_segments) = Len(alignment_points) + 1

\* the 0-based TOC index of the n-th cut
CutTocIndex(n) == CutToc(n).id - 1

C19_SlicesNotEmpty ==
    (SegmentsBuilt /\ toc_chunks # <<>>) =>
        \A n \in 1..Len(toc_segments) : toc_segments[n] # <<>>

\* two alignment points at the same TOC entry: the middle slice is that entry
C19_Witness ==
    /\ SegmentsBuilt
    /\ Len(toc_segments) = 3
    /\ CutTocIndex(1) = CutTocIndex(2)
    /\ Len(toc_segments[2]) = 1
    /\ Len(toc_segments[3]) = 2

\* C20: whatever the answer is (valid, out of range, unparsable, failed
\* call), the record emitted carries the chapter and the section of a TOC
\* chunk of the window offered for the chunk, which is a chunk of the
\* segment's TOC slice and of the TOC.
C20_RecordFromWindow ==
    [][(CallReturns /\ final_results' # final_results) =>
          LET rec == final_results'[Len(final_results')]
              window == request.toc_options
              slice == toc_segments[seg + 1]
          IN  /\ \E k \in 1..Len(window) :
                     /\ window[k].id = last'.matched
                     /\ rec.Chapter = window[k].chapter
                     /\ rec.Section = window[k].section
              /\ \E k \in 1..Len(slice) : slice[k].id = last'.matched
              /\ last'.matched \in 1..Len(toc_chunks)
              /\ rec.Chapter = toc_chunks[last'.matched].chapter
              /\ rec.Section = toc_chunks[last'.matched].section]_vars

\* an out-of-range answer and a failed call each left the first entry of a
\* window of two or more
C20_Witness ==
    /\ last.answer \in {"out_of_range", "api_error"}
    /\ Len(last.toc_options) >= 2
    /\ last.matched = last.toc_options[1].id
    /\ Len(final_results) = 2
    /\ final_results[2].Section = last.toc_options[1].section

\* C21: the output file is opened for writing at most once per book, in the
\* step that follows the classification of every chunk (one record and one
\* Oracle call per chunk); a write that fails ends process_single_book with
\* None and is not tried again, the siblings and the permits are left as
\* they were, and the summary counts the book as failed.
C21_WriteOnceAtTheEnd ==
    [][/\ (output_file' # output_file) =>
              /\ output_file = NoFile
              /\ pc = "save" /\ pc' = "returned"
              /\ Len(final_results) = Len(content_chunks)
              /\ \A k \in 1..Len(content_chunks) : calls[k] = 1
              /\ siblings' = siblings /\ semaphore' = semaphore
       /\ (pc = "save" /\ output_file'.state # "written") =>
              /\ pc' \in {"save", "returned"}
              /\ pc' = "returned" => result' = "None"
       /\ (pc = "save" /\ pc' = "save") => UNCHANGED <<output_file, result>>
       /\ (pc # "done" /\ pc' = "done" /\ output_file.state # "written") =>
              /\ result = "None"
              /\ failed' = siblings.nones + 1
              /\ successful' = siblings.paths]_vars

\* json.dump failed after open() had created the file: the book counts as
\* failed next to siblings that succeeded
C21_Witness ==
    /\ pc = "done"
    /\ output_file.state = "partial"
    /\ Len(final_results) = 2
    /\ result = "None"
    /\ siblings.paths = 4
    /\ failed = 1 /\ successful = 4

\* the book followed is the one whose TOC is Intro, Cell Structure, Genetics
\* and whose headings are Cell Structure, DNA basics
StructureRun ==
    toc_file = StructureBook.toc /\ content_file = StructureBook.content

\* an alignment point at content index 0: the leading segment is empty and
\* no Oracle call is made for it
LeadingSegmentEmpty ==
    (PointsFound /\ alignment_points # <<>> /\ alignment_points[1] = 0) =>
        /\ content_segments[1] = <<0, 0>>
        /\ pc \in {"loop", "await"} => seg >= 1

\* the content side of the book's run: one alignment point at content index
\* 0, the segments (0, 0) and (0, 2), the calls and the two records
StructureRunContent ==
    (StructureRun /\ PointsFound) =>
        /\ alignment_points = <<0>>
        /\ content_segments = << <<0, 0>>, <<0, 2>> >>
        /\ toc_segments[2] = PySlice(toc_chunks, 1, 3)
        /\ pc \in {"loop", "await"} =>
               /\ seg = 1
               /\ Len(final_results) = i
        /\ SegmentsDone =>
               /\ calls = <<1, 1>>
               /\ Len(final_results) = 2
               /\ \A k \in 1..2 :
                      /\ final_results[k].Subsection = content_chunks[k].subsection
                      /\ final_results[k].Content = content_chunks[k].content
                      /\ \E t \in 2..3 :
                             /\ final_results[k].Chapter = toc_chunks[t].chapter
                             /\ final_results[k].Section = toc_chunks[t].section

\* C22 as stated: with the first alignment point at content index 0 the
\* leading segment is empty and calls no Oracle, and in the book of the
\* scenario the leading segment has the TOC slice toc_chunks[0:1], the
\* trailing segment all the content with toc_chunks[1:3], and two records
\* come out in content order.
C22_LeadingSliceBeforeAnchor ==
    /\ LeadingSegmentEmpty
    /\ StructureRunContent
    /\ (StructureRun /\ PointsFound) =>
           toc_segments[1] = PySlice(toc_chunks, 0, 1)

\* C22 amended: the same, with the TOC slice of the leading segment running
\* up to and including the matched entry, toc_chunks[0:2].
C22_LeadingSliceThroughAnchor ==
    /\ LeadingSegmentEmpty
    /\ StructureRunContent
    /\ (StructureRun /\ PointsFound) =>
           toc_segments[1] = PySlice(toc_chunks, 0, 2)

\* the book of the scenario ended with its two records written, the first
\* under Cell Structure and the second under Genetics
C22_Witness ==
    /\ StructureRun
    /\ pc = "done"
    /\ alignment_points = <<0>>
    /\ Len(toc_segments[1]) = 2
    /\ output_file.state = "written"
    /\ Len(output_file.records) = 2
    /\ output_file.records[1].Section = SecCellStructure
    /\ output_file.records[2].Section = SecGenetics

\* the answer to the call in flight is valid and selects an entry of the
\* segment's TOC slice before the entry selected for the previous chunk of
\* the segment, which is where the cursor stands
SelectsEarlierEntry ==
    /\ CallReturns
    /\ i > 0
    /\ last'.answer = "valid"
    /\ last'.cursor < current_toc_index

\* C23: when the Oracle selects a TOC entry that lies before the entry of
\* the previous chunk, an error is shown, no record is emitted for the
\* selection and the processing of the book stops.
C23_BackwardSelectionStops ==
    [][SelectsEarlierEntry =>
          /\ last'.logged # <<>>
          /\ final_results' = final_results
          /\ pc' = "returned"
          /\ result' = "None"]_vars

\* the TOC chunk at 0-based index t passes find_alignment_points' test for
\* the content chunk at 0-based index c
MeetsAnchorTest(t, c) ==
    /\ WordCount(toc_chunks[t + 1].section) > 1
    /\ similar_text_above(toc_chunks[t + 1].section,
                          content_chunks[c + 1].subsection, 9, 10)

\* the 0-based TOC index of the cut before the n-th cut, 0 before the first
PreviousCutTocIndex(n) == IF n = 1 THEN 0 ELSE CutTocIndex(n - 1)

\* C24: the anchors are found in one forward scan: the TOC entry of each
\* anchor is the first entry, at or after the TOC entry of the anchor
\* before, that is more than 0.9 similar to the heading and has more than
\* one word; so the TOC indices of successive anchors never decrease, and a
\* chunk that matches only an earlier TOC entry is no alignment point.
C24_ForwardScan ==
    SegmentsBuilt =>
        /\ \A n \in CutSegments :
               /\ PreviousCutTocIndex(n) <= CutTocIndex(n)
               /\ MeetsAnchorTest(CutTocIndex(n), CutPoint(n))
               /\ \A t \in PreviousCutTocIndex(n)..(CutTocIndex(n) - 1) :
                      ~MeetsAnchorTest(t, CutPoint(n))
        /\ Range(alignment_points) = {CutPoint(n) : n \in CutSegments}

\* C25: after a call that emitted a record, the cursor is the position, in
\* the segment's TOC slice, of the very TOC chunk whose labels went into the
\* record: the chunk of the window that was selected, at the window's start
\* plus its offset in the window, also when other chunks of the slice carry
\* the same chapter and section.  The next chunk of the segment starts from
\* that cursor.
C25_CursorAtSelectedEntry ==
    [][(CallReturns /\ final_results' # final_results) =>
          LET slice == toc_segments[seg + 1]
              window == request.toc_options
              rec == final_results'[Len(final_results')]
              pos == last'.cursor
          IN  /\ pos \in 0..(Len(slice) - 1)
              /\ slice[pos + 1].id = last'.matched
              /\ rec.Chapter = slice[pos + 1].chapter
              /\ rec.Section = slice[pos + 1].section
              /\ \E k \in 1..Len(window) :
                     /\ window[k].id = last'.matched
                     /\ pos = Max(0, current_toc_index - Backoff) + k - 1
              /\ (pc' = "loop" /\ seg' = seg) => current_toc_index' = pos]_vars

\* the fourth entry of the slice was selected, which has the labels of the
\* first entry, and the cursor stands on the fourth
C25_Witness ==
    /\ pc = "loop"
    /\ i > 0
    /\ last.answer = "valid"
    /\ last.matched = 4
    /\ current_toc_index = 3
    /\ toc_segments[seg + 1][4].chapter = toc_segments[seg + 1][1].chapter
    /\ toc_segments[seg + 1][4].section = toc_segments[seg + 1][1].section
    /\ final_results[Len(final_results)].Section = toc_segments[seg + 1][4].section

\* the book followed has been admitted and is inside process_single_book
Admitted == InsideBook

\* process_single_book has returned for the book followed
BookFinished == pc \in {"returned", "released", "done"}

\* the loop of the segment entered has run to its end
SegmentLoopEnded(s) == seg > s \/ pc \in {"save", "returned", "released", "done"}

\* C26: when every Oracle call returns or raises, every segment whose loop
\* was entered runs to its end, the book admitted finishes, every sibling
\* finishes, and the batch then prints its summary; every return of an
\* Oracle call, whatever the answer, moves the loop to the next chunk.
C26_BatchTerminates ==
    /\ [][CallReturns => ChunkAdvanced]_vars
    /\ \A s \in 0..MaxContent : (pc = "loop" /\ seg = s) ~> SegmentLoopEnded(s)
    /\ Admitted ~> BookFinished
    /\ <>(siblings.queued = 0 /\ siblings.inside = 0)
    /\ <>(pc = "done")

\* the summary was printed after a book of two chunks whose calls both
\* failed, next to four siblings
C26_Witness ==
    /\ pc = "done"
    /\ Len(content_chunks) = 2
    /\ calls = <<1, 1>>
    /\ last.answer = "api_error"
    /\ successful + failed = MaxSiblings + 1
    /\ siblings.queued = 0 /\ siblings.inside = 0

\* the write of the merged file failed: every chunk has its record and the
\* file is absent or partial
WriteFailed ==
    /\ alignment_points # <<>>
    /\ Len(final_results) = Len(content_chunks)
    /\ output_file.state # "written"

ChunksPerCall == 3

\* C28: the call in flight for the chunk at position i of a segment of n
\* chunks carries min(3, n - i) chunks, the consecutive chunks of the book
\* from that chunk on, none of them beyond the end of the segment, and its
\* options are the window at the cursor over the segment's TOC slice.
C28_LookAheadInsideSegment ==
    pc = "await" =>
        LET start == content_segments[seg + 1][1]
            end == content_segments[seg + 1][2]
            n == end - start
            count == Min(ChunksPerCall, n - i)
        IN  /\ Len(request.chunks) = count
            /\ \A k \in 1..count :
                   request.chunks[k] = content_chunks[start + i + k]
            /\ start + i + count <= end
            /\ request.toc_options =
                   get_toc_window(toc_segments[seg + 1], current_toc_index)

\* the call for the first of the four chunks of a segment carries three
\* chunks
C28_Witness ==
    /\ pc = "await"
    /\ seg = 1
    /\ i = 0
    /\ content_segments[seg + 1] = <<2, 6>>
    /\ Len(request.chunks) = 3
    /\ request.chunks[3] = content_chunks[5]

\* C29: while a segment's loop runs, the cursor is an index of the segment's
\* TOC slice and the window at the cursor has an entry; the return of a call
\* leaves the cursor at an index from max(0, c - 2) to max(0, c - 2) + 6,
\* where c is the cursor the call started from: at most 2 back, and at most
\* 4 forward once c is 2 or more.
C29_CursorInSlice ==
    /\ [](pc \in {"loop", "await"} =>
             /\ 0 <= current_toc_index
             /\ current_toc_index < Len(toc_segments[seg + 1])
             /\ get_toc_window(toc_segments[seg + 1], current_toc_index) # <<>>
             /\ pc = "await" => request.toc_options # <<>>)
    /\ [][CallReturns =>
             LET c == current_toc_index
                 lo == Max(0, c - Backoff)
             IN  /\ lo <= last'.cursor
                 /\ last'.cursor <= lo + WindowSize - 1
                 /\ c - Backoff <= last'.cursor
                 /\ c >= Backoff => last'.cursor <= c + (WindowSize - 1 - Backoff)
                 /\ last'.cursor < Len(toc_segments[seg + 1])]_vars

\* the second call started at cursor 4 with the window of entries 2 to 8 and
\* its answer moved the cursor 4 forward to entry 8
C29_Witness ==
    /\ pc = "loop"
    /\ i = 2
    /\ Len(toc_segments[seg + 1]) > WindowSize
    /\ Len(last.toc_options) = WindowSize
    /\ last.toc_options[1].id = 3
    /\ last.answer = "valid"
    /\ current_toc_index = 8

\* the call in flight, or the call that just returned, is for the chunk at
\* an alignment point that opens a segment after the leading one
OpensSegment == seg >= 1 /\ i = 0

=============================================================================
